---- MODULE Spec2Model ----
(***************************************************************************)
(* A model of the appconfiguration-rust-sdk client: the configuration      *)
(* snapshot held behind Arc<Mutex<ConfigurationSnapshot>>, the background  *)
(* thread that replaces it when the server pushes a change over the        *)
(* websocket, and the facade queries of AppConfigurationClientIBMCloud.    *)
(***************************************************************************)
EXTENDS Integers, Sequences, FiniteSets, TLC

(***************************************************************************)
(* Bounds of the model.                                                    *)
(***************************************************************************)
\* number of application threads that query the client
NumThreads == 2
\* width of the model's "64 bit" integers (i64 is IntBits wide, two's complement)
IntBits == 8
\* number of change notifications the count of the thread's work goes up to
MaxRefresh == 2

Threads == 1..NumThreads

I64_MAX == 2^(IntBits - 1) - 1
I64_MIN == -(2^(IntBits - 1))
U64_MAX == 2^IntBits - 1

None == [kind |-> "none"]

(***************************************************************************)
(* models.rs: the catalog document as it is deserialized.                  *)
(***************************************************************************)
\* ConfigValue wraps a serde_json::Value: a number, a string or a boolean
JNum(n) == [t |-> "number", v |-> n, integral |-> TRUE]
JFloat(n) == [t |-> "number", v |-> n, integral |-> FALSE]
JStr(s) == [t |-> "string", v |-> s]
JBool(b) == [t |-> "bool", v |-> b]

\* serde_json as_i64 / as_u64 / as_f64 / as_bool / as_str: "has a value" tests
as_i64(cv) == cv.t = "number" /\ cv.integral /\ cv.v >= I64_MIN /\ cv.v <= I64_MAX
as_u64(cv) == cv.t = "number" /\ cv.integral /\ cv.v >= 0 /\ cv.v <= U64_MAX
as_f64(cv) == cv.t = "number"
as_boolean(cv) == cv.t = "bool"
as_string(cv) == cv.t = "string"

\* mutant of is_default: no value is the sentinel
is_default_Never(cv) == FALSE

is_default(cv) == IF cv.t = "string" THEN cv.v = "$default" ELSE FALSE

Ok(v) == [ok |-> TRUE, value |-> v]
Err(e) == [ok |-> FALSE, error |-> e]

\* mutant of ValueTryFrom: as_u64 is tried before as_i64
ValueTryFrom_UnsignedFirst(kind, value) ==
    CASE kind = "NUMERIC" ->
            IF as_u64(value) THEN Ok([variant |-> "UInt64", v |-> value.v])
            ELSE IF as_i64(value) THEN Ok([variant |-> "Int64", v |-> value.v])
            ELSE IF as_f64(value) THEN Ok([variant |-> "Float64", v |-> value.v])
            ELSE Err("ProtocolError")
      [] kind = "BOOLEAN" ->
            IF as_boolean(value) THEN Ok([variant |-> "Boolean", v |-> value.v])
            ELSE Err("MismatchType")
      [] kind = "STRING" ->
            IF as_string(value) THEN Ok([variant |-> "String", v |-> value.v])
            ELSE Err("MismatchType")

\* TryFrom<(ValueKind, ConfigValue)> for Value
ValueTryFrom(kind, value) ==
    CASE kind = "NUMERIC" ->
            IF as_i64(value) THEN Ok([variant |-> "Int64", v |-> value.v])
            ELSE IF as_u64(value) THEN Ok([variant |-> "UInt64", v |-> value.v])
            ELSE IF as_f64(value) THEN Ok([variant |-> "Float64", v |-> value.v])
            ELSE Err("ProtocolError")
      [] kind = "BOOLEAN" ->
            IF as_boolean(value) THEN Ok([variant |-> "Boolean", v |-> value.v])
            ELSE Err("MismatchType")
      [] kind = "STRING" ->
            IF as_string(value) THEN Ok([variant |-> "String", v |-> value.v])
            ELSE Err("MismatchType")

SegmentRule(attribute_name, operator, values) ==
    [attribute_name |-> attribute_name, operator |-> operator, values |-> values]

Segment(segment_id, rules) == [segment_id |-> segment_id, rules |-> rules]

Segments(ids) == [segments |-> ids]

\* rollout_percentage is Option<ConfigValue>: None or a ConfigValue
TargetingRule(rules, value, order, rollout_percentage) ==
    [rules |-> rules, value |-> value, order |-> order,
     rollout_percentage |-> rollout_percentage]

Feature(name, feature_id, kind, enabled_value, disabled_value, segment_rules, enabled, rollout_percentage) ==
    [name |-> name, feature_id |-> feature_id, kind |-> kind,
     enabled_value |-> enabled_value, disabled_value |-> disabled_value,
     segment_rules |-> segment_rules, enabled |-> enabled,
     rollout_percentage |-> rollout_percentage]

Property(name, property_id, kind, value, segment_rules) ==
    [name |-> name, property_id |-> property_id, kind |-> kind,
     value |-> value, segment_rules |-> segment_rules]

Environment(environment_id, features, properties) ==
    [environment_id |-> environment_id, features |-> features,
     properties |-> properties]

Configuration(environments, segments) ==
    [environments |-> environments, segments |-> segments]

Range(s) == {s[i] : i \in DOMAIN s}

(***************************************************************************)
(* The catalog documents the configuration service can answer with.        *)
(***************************************************************************)
\* IBMCloudContext.environment_id the client is created with
ContextEnvironmentId == "dev"

SegGold == Segment("s1", <<SegmentRule("tier", "is", <<"gold">>)>>)
SegSilver == Segment("s1", <<SegmentRule("tier", "is", <<"silver", "bronze">>)>>)
SegGold2 == Segment("s2", <<SegmentRule("tier", "is", <<"gold">>)>>)

\* first version of the catalog: one feature, one property, one segment
Doc1 ==
    Configuration(
      <<Environment("prod", <<>>, <<>>),
        Environment("dev",
          <<Feature("F1", "f1", "STRING", JStr("basic"), JStr("off"),
              <<TargetingRule(<<Segments(<<"s1">>)>>, JStr("premium"), 1, None)>>,
              TRUE, 100)>>,
          <<Property("P1", "p1", "NUMERIC", JNum(7),
              <<TargetingRule(<<Segments(<<"s1">>)>>, JNum(11), 1, None)>>)>>)>>,
      <<SegGold>>)

\* second version: f1 retargeted to a new segment s2, s1 redefined, f2 added,
\* p1 removed
Doc2 ==
    Configuration(
      <<Environment("dev",
          <<Feature("F1", "f1", "STRING", JStr("plus"), JStr("off"),
              <<TargetingRule(<<Segments(<<"s1">>)>>, JStr("$default"), 2, None),
                TargetingRule(<<Segments(<<"s2">>), Segments(<<"s2">>)>>, JStr("vip"), 1, None)>>,
              TRUE, 0),
            Feature("F2", "f2", "NUMERIC", JNum(42), JNum(-42), <<>>, FALSE, 100)>>,
          <<>>)>>,
      <<SegSilver, SegGold2>>)

\* a document without the environment of the context
DocNoEnvironment ==
    Configuration(
      <<Environment("prod",
          <<Feature("F1", "f1", "STRING", JStr("prod"), JStr("off"), <<>>, TRUE, 100)>>,
          <<>>)>>,
      <<SegGold>>)

\* a document whose feature f1 names a segment the document does not define
DocMissingSegment ==
    Configuration(
      <<Environment("dev",
          <<Feature("F1", "f1", "STRING", JStr("broken"), JStr("off"),
              <<TargetingRule(<<Segments(<<"s1", "s2">>)>>, JStr("x"), 1, None)>>,
              TRUE, 100)>>,
          <<>>)>>,
      <<SegGold>>)

Documents == {Doc1, Doc2, DocNoEnvironment, DocMissingSegment}

FeatureIds == {"f1", "f2"}
PropertyIds == {"p1"}

(***************************************************************************)
(* client/cache.rs: ConfigurationSnapshot.                                 *)
(***************************************************************************)
\* the map a HashMap becomes when the records of seq are inserted in order
\* under key(record): a later record replaces an earlier one with the same key
MapOf(seq, key) ==
    [k \in {seq[i][key] : i \in DOMAIN seq} |->
        LET last == CHOOSE i \in DOMAIN seq :
                        /\ seq[i][key] = k
                        /\ \A j \in DOMAIN seq : seq[j][key] = k => j <= i
        IN  seq[last]]

\* the segment ids named by the targeting rules of a feature or property
all_segment_ids(resource) ==
    UNION {UNION {Range(segs.segments) : segs \in Range(targeting_rule.rules)} :
             targeting_rule \in Range(resource.segment_rules)}

\* ConfigurationSnapshot::new(environment_id, configuration)
ConfigurationSnapshot_new(environment_id, configuration) ==
    LET envs == configuration.environments
        found == {i \in DOMAIN envs : envs[i].environment_id = environment_id}
    IN  IF found = {} THEN Err("EnvironmentNotFound")
        ELSE
          LET env == envs[CHOOSE i \in found : \A j \in found : i <= j]
              features == MapOf(env.features, "feature_id")
              properties == MapOf(env.properties, "property_id")
              segments == MapOf(configuration.segments, "segment_id")
              resources == Range(env.features) \cup Range(env.properties)
          IN  IF \E r \in resources : ~(all_segment_ids(r) \subseteq DOMAIN segments)
              THEN Err("MissingSegments")
              ELSE Ok([features |-> features, properties |-> properties,
                       segments |-> segments])

\* ConfigurationSnapshot::get_feature / get_property
snapshot_get_feature(config_snapshot, feature_id) ==
    IF feature_id \in DOMAIN config_snapshot.features
    THEN Ok(config_snapshot.features[feature_id])
    ELSE Err("FeatureNotFound")

snapshot_get_property(config_snapshot, property_id) ==
    IF property_id \in DOMAIN config_snapshot.properties
    THEN Ok(config_snapshot.properties[property_id])
    ELSE Err("PropertyNotFound")

(***************************************************************************)
(* Evaluation of a feature or property for an entity (segment_evaluation,  *)
(* client/feature_snapshot.rs, client/property_snapshot.rs).               *)
(***************************************************************************)
VString(s) == [variant |-> "String", v |-> s]

\* the entities the application evaluates: an id and its attributes
Entities ==
    {[id |-> "u1", attributes |-> [tier |-> VString("gold")]],
     [id |-> "u2", attributes |-> [region |-> VString("eu")]]}

\* one operand of a segment rule against the entity's attribute
OperandMatches(operator, attribute, operand) ==
    CASE operator = "is" -> attribute.variant = "String" /\ attribute.v = operand
      [] operator = "isNot" -> attribute.variant = "String" /\ attribute.v # operand
      [] OTHER -> FALSE

\* a rule matches when the attribute is present and any operand matches
SegmentRuleMatches(rule, entity) ==
    /\ rule.attribute_name \in DOMAIN entity.attributes
    /\ \E i \in DOMAIN rule.values :
          OperandMatches(rule.operator, entity.attributes[rule.attribute_name],
                         rule.values[i])

\* a segment matches when every one of its rules matches
SegmentMatches(segment, entity) ==
    \A i \in DOMAIN segment.rules : SegmentRuleMatches(segment.rules[i], entity)

\* a targeting rule fires when the entity belongs to any segment it lists
TargetingRuleMatches(targeting_rule, segments, entity) ==
    \E id \in all_segment_ids([segment_rules |-> <<targeting_rule>>]) :
        id \in DOMAIN segments /\ SegmentMatches(segments[id], entity)

\* the normalized hash of entity_id ":" resource_id, in 0..99
RolloutHash(entity_id, resource_id) ==
    CASE entity_id = "u1" /\ resource_id = "f1" -> 0
      [] entity_id = "u1" /\ resource_id = "f2" -> 99
      [] entity_id = "u2" -> 50
      [] OTHER -> 10

\* mutant of RolloutIncludes: the bound is inclusive
RolloutIncludes_Inclusive(entity_id, resource_id, rollout_percentage) ==
    RolloutHash(entity_id, resource_id) <= rollout_percentage

RolloutIncludes(entity_id, resource_id, rollout_percentage) ==
    RolloutHash(entity_id, resource_id) < rollout_percentage

\* the matching targeting rules, and the one among them with the least order
MatchingRules(resource, segments, entity) ==
    {r \in Range(resource.segment_rules) : TargetingRuleMatches(r, segments, entity)}

\* mutant of FirstMatchingRule: the first matching rule of the list
FirstMatchingRule_ByPosition(resource, segments, entity) ==
    resource.segment_rules[
        CHOOSE i \in DOMAIN resource.segment_rules :
            /\ TargetingRuleMatches(resource.segment_rules[i], segments, entity)
            /\ \A j \in 1..(i - 1) :
                  ~TargetingRuleMatches(resource.segment_rules[j], segments, entity)]

FirstMatchingRule(resource, segments, entity) ==
    CHOOSE r \in MatchingRules(resource, segments, entity) :
        \A q \in MatchingRules(resource, segments, entity) : r.order <= q.order

\* mutant of FeatureRawValue: the enabled flag is not looked at
FeatureRawValue_IgnoresEnabled(feature, segments, entity) ==
    IF MatchingRules(feature, segments, entity) # {}
    THEN LET r == FirstMatchingRule(feature, segments, entity)
             included == IF r.rollout_percentage = None THEN TRUE
                         ELSE RolloutIncludes(entity.id, feature.feature_id,
                                              r.rollout_percentage.v)
         IN  IF ~included THEN feature.enabled_value
             ELSE IF is_default(r.value) THEN feature.enabled_value
             ELSE r.value
    ELSE IF RolloutIncludes(entity.id, feature.feature_id, feature.rollout_percentage)
         THEN feature.enabled_value
         ELSE feature.disabled_value

\* the raw value a feature evaluates to for the entity
FeatureRawValue(feature, segments, entity) ==
    IF ~feature.enabled THEN feature.disabled_value
    ELSE IF MatchingRules(feature, segments, entity) # {}
    THEN LET r == FirstMatchingRule(feature, segments, entity)
             included == IF r.rollout_percentage = None THEN TRUE
                         ELSE RolloutIncludes(entity.id, feature.feature_id,
                                              r.rollout_percentage.v)
         IN  IF ~included THEN feature.enabled_value
             ELSE IF is_default(r.value) THEN feature.enabled_value
             ELSE r.value
    ELSE IF RolloutIncludes(entity.id, feature.feature_id, feature.rollout_percentage)
         THEN feature.enabled_value
         ELSE feature.disabled_value

\* the raw value a property evaluates to for the entity
PropertyRawValue(property, segments, entity) ==
    IF MatchingRules(property, segments, entity) # {}
    THEN LET r == FirstMatchingRule(property, segments, entity)
         IN  IF is_default(r.value) THEN property.value ELSE r.value
    ELSE property.value

FeatureGetValue(feature, segments, entity) ==
    ValueTryFrom(feature.kind, FeatureRawValue(feature, segments, entity))

PropertyGetValue(property, segments, entity) ==
    ValueTryFrom(property.kind, PropertyRawValue(property, segments, entity))

(***************************************************************************)
(* The state of the client, of the thread that monitors the websocket and  *)
(* of the application threads that call the client.                        *)
(***************************************************************************)
VARIABLES
    store,      \* latest_config_snapshot: the ConfigurationSnapshot in the Mutex
    locked,     \* whether the Mutex of latest_config_snapshot is held
    dropped,    \* whether the client, and with it _thread_terminator, is dropped
    msg,        \* the message socket.read() returned, while the thread acts on it
    upc,        \* where the monitoring thread is
    pending,    \* the config_snapshot the thread got and has not installed
    log,        \* the error the thread printed when it stopped monitoring
    pc,         \* where each application thread is
    arg,        \* the id an application thread's call was given
    local,      \* the feature or property a call has read from the snapshot
    view,       \* the FeatureSnapshot, PropertySnapshot or proxy a thread holds
    res,        \* the result the call a thread is in is about to return
    val,        \* a Value the application holds
    conv,       \* the primitive type it was converted to last, and the result
    prim,       \* the primitive the application holds, and its type
    config_value, \* a value as the configuration document gives it: ConfigValue
    typed,      \* the kind config_value was typed as last, and the result
    hist        \* what the monitoring thread has done so far, counted

vars ==
    <<store, locked, dropped, msg, upc, pending, log, pc, arg, local, view, res,
      val, conv>>

thread_vars == <<pc, arg, local, view, res>>

\* the messages the server may send: tungstenite::Message
KeepAlive == [type |-> "Text", text |-> "test message"]

Messages ==
    {KeepAlive,
     [type |-> "Text", text |-> "configuration changed"],
     [type |-> "Text", text |-> "Test Message"],
     [type |-> "Close", text |-> ""],
     [type |-> "Ping", text |-> "test message"],
     [type |-> "Pong", text |-> ""],
     [type |-> "Frame", text |-> ""],
     [type |-> "Binary", text |-> "configuration changed"]}

\* the snapshots ConfigurationSnapshot::new accepts, of the documents
ValidSnapshots ==
    {ConfigurationSnapshot_new(ContextEnvironmentId, d).value :
        d \in {d \in Documents : ConfigurationSnapshot_new(ContextEnvironmentId, d).ok}}

\* AppConfigurationClientIBMCloud::new: the first snapshot is in the Mutex, the
\* websocket is connected and the thread is started
Init ==
    /\ store \in ValidSnapshots
    /\ locked = FALSE
    /\ dropped = FALSE
    /\ msg = None
    /\ upc = "check"
    /\ pending = None
    /\ log = ""
    /\ pc = [t \in Threads |-> "idle"]
    /\ arg = [t \in Threads |-> ""]
    /\ local = [t \in Threads |-> None]
    /\ view = [t \in Threads |-> None]
    /\ res = [t \in Threads |-> None]
    /\ val = None
    /\ conv = None
    /\ prim = None
    /\ config_value = None
    /\ typed = None
    /\ hist = None

\* Mutex::lock and the drop of the MutexGuard
\* hist, where a specification keeps it (it is None where none is kept):
\* how many text messages other than "test message" the thread has received,
\* how many fetches it has made, the number of the last fetch that gave a
\* snapshot, the number of the fetch whose snapshot is in the Mutex (0 is
\* the first snapshot, of new), the greatest such number a call that has
\* returned has read, and for each thread in get_feature_ids that number as
\* it was when the call began (floor) and the number the call has read (seen)
NoHistory ==
    [received |-> 0, fetched |-> 0, fetched_ok |-> 0, installed |-> 0,
     observed |-> 0, floor |-> [t \in Threads |-> 0], seen |-> [t \in Threads |-> -1]]

\* the message is a notification of a change: a text, not "test message"
IsRefresh(m) == m.type = "Text" /\ m.text # "test message"

\* the count stops at MaxRefresh notifications
HistAllows(m) ==
    IF hist = None THEN TRUE
    ELSE IF IsRefresh(m) THEN hist.received < MaxRefresh
    ELSE TRUE

HistReceived(m) ==
    IF hist = None \/ ~IsRefresh(m) THEN hist
    ELSE [hist EXCEPT !.received = @ + 1]

HistFetched(ok) ==
    IF hist = None THEN hist
    ELSE [hist EXCEPT !.fetched = @ + 1,
                      !.fetched_ok = IF ok THEN hist.fetched + 1 ELSE @]

HistInstalled ==
    IF hist = None THEN hist ELSE [hist EXCEPT !.installed = hist.fetched_ok]

HistStarted(t) ==
    IF hist = None THEN hist ELSE [hist EXCEPT !.floor[t] = hist.observed]

HistObserved(t) ==
    IF hist = None THEN hist ELSE [hist EXCEPT !.seen[t] = hist.installed]

HistCompleted(t) ==
    IF hist = None THEN hist
    ELSE IF hist.seen[t] < 0 THEN hist
    ELSE [hist EXCEPT !.observed = IF hist.seen[t] > @ THEN hist.seen[t] ELSE @,
                      !.seen[t] = -1,
                      !.floor[t] = 0]

MutexLock == locked = FALSE /\ locked' = TRUE

MutexUnlock == locked' = FALSE

(***************************************************************************)
(* update_configuration_on_change: the thread's loop.                      *)
(***************************************************************************)
\* receiver.try_recv(): Disconnected once the sender is dropped, else Empty
try_recv == IF dropped THEN "Disconnected" ELSE "Empty"

\* the check at the top of the loop; then wait_for_configuration_update
UpdaterCheck ==
    /\ upc = "check"
    /\ upc' = IF try_recv = "Disconnected" THEN "done" ELSE "wait"
    /\ UNCHANGED <<store, locked, dropped, msg, pending, log, thread_vars, val, conv,
                   prim, config_value, typed, hist>>

\* the head of the loop of wait_for_configuration_update: the thread calls
\* socket.read(), which blocks until the server sends a message
UpdaterBlock ==
    /\ upc = "wait"
    /\ upc' = "read"
    /\ msg' = None
    /\ UNCHANGED <<store, locked, dropped, pending, log, thread_vars, val, conv,
                   prim, config_value, typed, hist>>

\* mutant of AfterMessage: every text message is a change of the configuration
AfterMessage_AnyTextRefetches(m) ==
    CASE m.type = "Text" -> "fetch"
      [] m.type = "Close" -> "done"
      [] OTHER -> "wait"

\* mutant of AfterMessage: a close frame is skipped like a ping
AfterMessage_CloseIgnored(m) ==
    CASE m.type = "Text" -> IF m.text = "test message" THEN "wait" ELSE "fetch"
      [] OTHER -> "wait"

\* mutant of AfterMessage: a message that is no text ends the monitoring
AfterMessage_OtherTerminates(m) ==
    CASE m.type = "Text" -> IF m.text = "test message" THEN "wait" ELSE "fetch"
      [] OTHER -> "done"

\* mutant of AfterMessage: the keep-alive is recognised whatever its case
AfterMessage_CaseInsensitive(m) ==
    CASE m.type = "Text" ->
            IF m.text \in {"test message", "Test Message"} THEN "wait" ELSE "fetch"
      [] m.type = "Close" -> "done"
      [] OTHER -> "wait"

\* wait_for_configuration_update: what the thread does with the message read
AfterMessage(m) ==
    CASE m.type = "Text" -> IF m.text = "test message" THEN "wait" ELSE "fetch"
      [] m.type = "Close" -> "done"
      [] OTHER -> "wait"

\* socket.read() returns a message of the server, and the message is matched
UpdaterRead ==
    /\ upc = "read"
    /\ \E m \in Messages :
          /\ HistAllows(m)
          /\ msg' = m
          /\ hist' = HistReceived(m)
          /\ upc' = AfterMessage(m)
          /\ log' = IF upc' = "done" THEN "Connection closed by the server" ELSE log
    /\ UNCHANGED <<store, locked, dropped, pending, thread_vars, val, conv,
                   prim, config_value, typed>>

\* socket.read()? fails: the error leaves the loop
UpdaterReadError ==
    /\ upc = "read"
    /\ upc' = "done"
    /\ log' = "read failed"
    /\ UNCHANGED <<store, locked, dropped, msg, pending, thread_vars, val, conv,
                   prim, config_value, typed, hist>>

\* http::get_configuration: a transport error, a parse error or a document
FetchOutcomes ==
    {Err("transport"), Err("parse")} \cup {Ok(d) : d \in Documents}

\* the maps of a snapshot, as they are built from the document's environment
SnapshotMaps(environment, configuration) ==
    [features |-> MapOf(environment.features, "feature_id"),
     properties |-> MapOf(environment.properties, "property_id"),
     segments |-> MapOf(configuration.segments, "segment_id")]

\* mutant of get_configuration_snapshot: the snapshot is built from the
\* document's maps, not by ConfigurationSnapshot::new
get_configuration_snapshot_Unchecked(configuration) ==
    IF ~configuration.ok THEN configuration
    ELSE LET envs == configuration.value.environments
             found == {i \in DOMAIN envs : envs[i].environment_id = ContextEnvironmentId}
         IN  IF found = {} THEN Err("EnvironmentNotFound")
             ELSE Ok(SnapshotMaps(envs[CHOOSE i \in found : TRUE], configuration.value))

\* get_configuration_snapshot
get_configuration_snapshot(configuration) ==
    IF ~configuration.ok THEN configuration
    ELSE ConfigurationSnapshot_new(ContextEnvironmentId, configuration.value)

\* mutant of AfterFetch: the snapshot fetched is dropped, the loop goes on
AfterFetch_DropsSnapshot(config_snapshot) == IF config_snapshot.ok THEN "check" ELSE "done"

\* mutant of AfterFetch: after an error the thread goes on reading messages
AfterFetch_KeepsMonitoring(config_snapshot) == IF config_snapshot.ok THEN "lock" ELSE "wait"

\* the thread after wait_for_configuration_update returned config_snapshot
AfterFetch(config_snapshot) == IF config_snapshot.ok THEN "lock" ELSE "done"

UpdaterFetch ==
    /\ upc = "fetch"
    /\ \E configuration \in FetchOutcomes :
         LET config_snapshot == get_configuration_snapshot(configuration)
         IN  /\ upc' = AfterFetch(config_snapshot)
             /\ pending' = IF config_snapshot.ok THEN config_snapshot.value ELSE None
             /\ log' = IF config_snapshot.ok THEN log ELSE config_snapshot.error
             /\ hist' = HistFetched(config_snapshot.ok)
    /\ msg' = None
    /\ UNCHANGED <<store, locked, dropped, thread_vars, val, conv,
                   prim, config_value, typed>>

\* mutant of UpdaterLock: the snapshot is written without waiting for the Mutex
UpdaterLock_WithoutMutex ==
    /\ upc = "lock"
    /\ locked' = TRUE
    /\ upc' = "write"
    /\ UNCHANGED <<store, dropped, msg, pending, log, thread_vars, val, conv,
                   prim, config_value, typed, hist>>

\* mutant of UpdaterLock: the lock is tried, as by try_lock, and the snapshot
\* is dropped when a query holds the Mutex
UpdaterLock_GivesUp ==
    /\ upc = "lock"
    /\ IF locked
       THEN /\ upc' = "check"
            /\ pending' = None
            /\ UNCHANGED locked
       ELSE /\ locked' = TRUE
            /\ upc' = "write"
            /\ UNCHANGED pending
    /\ UNCHANGED <<store, dropped, msg, log, thread_vars, val, conv,
                   prim, config_value, typed, hist>>

\* *latest_config_snapshot.lock()? = config_snapshot: the lock is taken, the
\* snapshot is written over the old one, the guard is dropped
UpdaterLock ==
    /\ upc = "lock"
    /\ MutexLock
    /\ upc' = "write"
    /\ UNCHANGED <<store, dropped, msg, pending, log, thread_vars, val, conv,
                   prim, config_value, typed, hist>>

\* the assignment writes the struct field after field
UpdaterWrite ==
    /\ upc = "write"
    /\ store' = [store EXCEPT !.features = pending.features,
                              !.properties = pending.properties]
    /\ upc' = "write_segments"
    /\ UNCHANGED <<locked, dropped, msg, pending, log, thread_vars, val, conv,
                   prim, config_value, typed, hist>>

\* mutant of UpdaterWriteSegments: the segments of the old snapshot are kept
UpdaterWriteSegments_KeepsSegments ==
    /\ upc = "write_segments"
    /\ store' = store
    /\ pending' = None
    /\ MutexUnlock
    /\ upc' = "check"
    /\ hist' = HistInstalled
    /\ UNCHANGED <<dropped, msg, log, thread_vars, val, conv,
                   prim, config_value, typed>>

\* mutant of UpdaterWriteSegments: the guard outlives the assignment
UpdaterWriteSegments_KeepsLock ==
    /\ upc = "write_segments"
    /\ store' = [store EXCEPT !.segments = pending.segments]
    /\ pending' = None
    /\ upc' = "check"
    /\ hist' = HistInstalled
    /\ UNCHANGED <<locked, dropped, msg, log, thread_vars, val, conv,
                   prim, config_value, typed>>

UpdaterWriteSegments ==
    /\ upc = "write_segments"
    /\ store' = [store EXCEPT !.segments = pending.segments]
    /\ pending' = None
    /\ MutexUnlock
    /\ upc' = "check"
    /\ hist' = HistInstalled
    /\ UNCHANGED <<dropped, msg, log, thread_vars, val, conv,
                   prim, config_value, typed>>

(***************************************************************************)
(* impl AppConfigurationClient for AppConfigurationClientIBMCloud: the     *)
(* calls of the application threads.  A call that locks the snapshot ends  *)
(* by dropping its guard: its result is computed with the lock held.       *)
(***************************************************************************)
IdsResult(ids) == [kind |-> "ids", ids |-> ids]

ErrorResult(e) == [kind |-> "error", error |-> e]

ValueResult(entity, value) == [kind |-> "value", entity |-> entity.id, value |-> value]

FeatureSnapshot(feature, segments) ==
    [kind |-> "feature_snapshot", resource |-> feature, segments |-> segments]

PropertySnapshot(property, segments) ==
    [kind |-> "property_snapshot", resource |-> property, segments |-> segments]

FeatureProxy(feature_id) == [kind |-> "feature_proxy", id |-> feature_id]

PropertyProxy(property_id) == [kind |-> "property_proxy", id |-> property_id]

IsSnapshot(v) == v.kind \in {"feature_snapshot", "property_snapshot"}

IsProxy(v) == v.kind \in {"feature_proxy", "property_proxy"}

\* a call starts on a live client, by a thread that is in no other call
CanCall(t) == pc[t] = "idle" /\ ~dropped

\* mutant of Return: the guard is leaked, as by mem::forget, and not dropped
Return_LeaksGuard(t) ==
    /\ pc[t] = "return"
    /\ pc' = [pc EXCEPT ![t] = "idle"]
    /\ view' = [view EXCEPT ![t] = IF IsSnapshot(res[t]) THEN res[t] ELSE @]
    /\ res' = [res EXCEPT ![t] = None]
    /\ arg' = [arg EXCEPT ![t] = ""]
    /\ hist' = HistCompleted(t)
    /\ UNCHANGED <<store, locked, dropped, msg, upc, pending, log, local, val, conv,
                   prim, config_value, typed>>

\* the MutexGuard of a call is dropped and the call returns its result: a
\* snapshot view stays with the thread
Return(t) ==
    /\ pc[t] = "return"
    /\ MutexUnlock
    /\ pc' = [pc EXCEPT ![t] = "idle"]
    /\ view' = [view EXCEPT ![t] = IF IsSnapshot(res[t]) THEN res[t] ELSE @]
    /\ res' = [res EXCEPT ![t] = None]
    /\ arg' = [arg EXCEPT ![t] = ""]
    /\ hist' = HistCompleted(t)
    /\ UNCHANGED <<store, dropped, msg, upc, pending, log, local, val, conv,
                   prim, config_value, typed>>

\* mutant of GetFeatureIdsLock: the lock is shared among the queries, as
\* the read lock of an RwLock is
GetFeatureIdsLock_Shared(t) ==
    /\ CanCall(t)
    /\ upc \notin {"write", "write_segments"}
    /\ locked' = TRUE
    /\ pc' = [pc EXCEPT ![t] = "feature_ids"]
    /\ hist' = HistStarted(t)
    /\ UNCHANGED <<store, dropped, msg, upc, pending, log, arg, local, view, res, val, conv,
                   prim, config_value, typed>>

\* get_feature_ids: lock, collect the keys
GetFeatureIdsLock(t) ==
    /\ CanCall(t)
    /\ MutexLock
    /\ pc' = [pc EXCEPT ![t] = "feature_ids"]
    /\ hist' = HistStarted(t)
    /\ UNCHANGED <<store, dropped, msg, upc, pending, log, arg, local, view, res, val, conv,
                   prim, config_value, typed>>

\* mutant of GetFeatureIds: the keys of the properties are collected
GetFeatureIds_PropertyKeys(t) ==
    /\ pc[t] = "feature_ids"
    /\ res' = [res EXCEPT ![t] = IdsResult(DOMAIN store.properties)]
    /\ pc' = [pc EXCEPT ![t] = "return"]
    /\ hist' = HistObserved(t)
    /\ UNCHANGED <<store, locked, dropped, msg, upc, pending, log, arg, local, view, val, conv,
                   prim, config_value, typed>>

GetFeatureIds(t) ==
    /\ pc[t] = "feature_ids"
    /\ res' = [res EXCEPT ![t] = IdsResult(DOMAIN store.features)]
    /\ pc' = [pc EXCEPT ![t] = "return"]
    /\ hist' = HistObserved(t)
    /\ UNCHANGED <<store, locked, dropped, msg, upc, pending, log, arg, local, view, val, conv,
                   prim, config_value, typed>>

\* get_property_ids
GetPropertyIdsLock(t) ==
    /\ CanCall(t)
    /\ MutexLock
    /\ pc' = [pc EXCEPT ![t] = "property_ids"]
    /\ UNCHANGED <<store, dropped, msg, upc, pending, log, arg, local, view, res, val, conv,
                   prim, config_value, typed, hist>>

GetPropertyIds(t) ==
    /\ pc[t] = "property_ids"
    /\ res' = [res EXCEPT ![t] = IdsResult(DOMAIN store.properties)]
    /\ pc' = [pc EXCEPT ![t] = "return"]
    /\ UNCHANGED <<store, locked, dropped, msg, upc, pending, log, arg, local, view, val, conv,
                   prim, config_value, typed, hist>>

\* the segments of the snapshot that the resource's targeting rules name
segments_of(config_snapshot, resource) ==
    [key \in {k \in DOMAIN config_snapshot.segments : k \in all_segment_ids(resource)} |->
        config_snapshot.segments[key]]

\* mutant of segments_complete: the lengths are not compared
segments_complete_Unchecked(resource, segments) == TRUE

\* Integrity DB check: all segment_ids should be available in the snapshot
segments_complete(resource, segments) ==
    Cardinality(all_segment_ids(resource)) = Cardinality(DOMAIN segments)

\* get_feature: lock, look the feature up, collect its segments, clone
GetFeatureLock(t, feature_id) ==
    /\ CanCall(t)
    /\ MutexLock
    /\ pc' = [pc EXCEPT ![t] = "feature_lookup"]
    /\ arg' = [arg EXCEPT ![t] = feature_id]
    /\ UNCHANGED <<store, dropped, msg, upc, pending, log, local, view, res, val, conv,
                   prim, config_value, typed, hist>>

\* mutant of GetFeatureLookup: the guard is dropped once the feature is found
GetFeatureLookup_DropsGuard(t) ==
    /\ pc[t] = "feature_lookup"
    /\ LET feature == snapshot_get_feature(store, arg[t])
       IN  IF feature.ok
           THEN /\ local' = [local EXCEPT ![t] = feature.value]
                /\ pc' = [pc EXCEPT ![t] = "feature_segments"]
                /\ UNCHANGED res
           ELSE /\ res' = [res EXCEPT ![t] = ErrorResult(feature.error)]
                /\ pc' = [pc EXCEPT ![t] = "return"]
                /\ UNCHANGED local
    /\ MutexUnlock
    /\ UNCHANGED <<store, dropped, msg, upc, pending, log, arg, view, val, conv,
                   prim, config_value, typed, hist>>

\* mutant of GetFeatureLookup: the feature is taken out of the snapshot, as
\* by HashMap::remove, and not cloned
GetFeatureLookup_TakesFeature(t) ==
    /\ pc[t] = "feature_lookup"
    /\ LET feature == snapshot_get_feature(store, arg[t])
       IN  IF feature.ok
           THEN /\ local' = [local EXCEPT ![t] = feature.value]
                /\ pc' = [pc EXCEPT ![t] = "feature_segments"]
                /\ store' = [store EXCEPT !.features =
                                [id \in DOMAIN store.features \ {arg[t]} |->
                                    store.features[id]]]
                /\ UNCHANGED res
           ELSE /\ res' = [res EXCEPT ![t] = ErrorResult(feature.error)]
                /\ pc' = [pc EXCEPT ![t] = "return"]
                /\ UNCHANGED <<local, store>>
    /\ UNCHANGED <<locked, dropped, msg, upc, pending, log, arg, view, val, conv,
                   prim, config_value, typed, hist>>

GetFeatureLookup(t) ==
    /\ pc[t] = "feature_lookup"
    /\ LET feature == snapshot_get_feature(store, arg[t])
       IN  IF feature.ok
           THEN /\ local' = [local EXCEPT ![t] = feature.value]
                /\ pc' = [pc EXCEPT ![t] = "feature_segments"]
                /\ UNCHANGED res
           ELSE /\ res' = [res EXCEPT ![t] = ErrorResult(feature.error)]
                /\ pc' = [pc EXCEPT ![t] = "return"]
                /\ UNCHANGED local
    /\ UNCHANGED <<store, locked, dropped, msg, upc, pending, log, arg, view, val, conv,
                   prim, config_value, typed, hist>>

\* mutant of GetFeatureSegments: the snapshot view is built without segments
GetFeatureSegments_WithoutSegments(t) ==
    /\ pc[t] = "feature_segments"
    /\ res' = [res EXCEPT ![t] = FeatureSnapshot(local[t], <<>>)]
    /\ local' = [local EXCEPT ![t] = None]
    /\ pc' = [pc EXCEPT ![t] = "return"]
    /\ UNCHANGED <<store, locked, dropped, msg, upc, pending, log, arg, view, val, conv,
                   prim, config_value, typed, hist>>

\* mutant of GetFeatureSegments: every segment of the snapshot is cloned
GetFeatureSegments_ClonesAll(t) ==
    /\ pc[t] = "feature_segments"
    /\ LET segments == segments_of(store, local[t])
       IN  res' = [res EXCEPT ![t] =
                     IF segments_complete(local[t], segments)
                     THEN FeatureSnapshot(local[t], store.segments)
                     ELSE ErrorResult("MissingSegments")]
    /\ local' = [local EXCEPT ![t] = None]
    /\ pc' = [pc EXCEPT ![t] = "return"]
    /\ UNCHANGED <<store, locked, dropped, msg, upc, pending, log, arg, view, val, conv,
                   prim, config_value, typed, hist>>

GetFeatureSegments(t) ==
    /\ pc[t] = "feature_segments"
    /\ LET segments == segments_of(store, local[t])
       IN  res' = [res EXCEPT ![t] =
                     IF segments_complete(local[t], segments)
                     THEN FeatureSnapshot(local[t], segments)
                     ELSE ErrorResult("MissingSegments")]
    /\ local' = [local EXCEPT ![t] = None]
    /\ pc' = [pc EXCEPT ![t] = "return"]
    /\ UNCHANGED <<store, locked, dropped, msg, upc, pending, log, arg, view, val, conv,
                   prim, config_value, typed, hist>>

\* get_property
GetPropertyLock(t, property_id) ==
    /\ CanCall(t)
    /\ MutexLock
    /\ pc' = [pc EXCEPT ![t] = "property_lookup"]
    /\ arg' = [arg EXCEPT ![t] = property_id]
    /\ UNCHANGED <<store, dropped, msg, upc, pending, log, local, view, res, val, conv,
                   prim, config_value, typed, hist>>

GetPropertyLookup(t) ==
    /\ pc[t] = "property_lookup"
    /\ LET property == snapshot_get_property(store, arg[t])
       IN  IF property.ok
           THEN /\ local' = [local EXCEPT ![t] = property.value]
                /\ pc' = [pc EXCEPT ![t] = "property_segments"]
                /\ UNCHANGED res
           ELSE /\ res' = [res EXCEPT ![t] = ErrorResult(property.error)]
                /\ pc' = [pc EXCEPT ![t] = "return"]
                /\ UNCHANGED local
    /\ UNCHANGED <<store, locked, dropped, msg, upc, pending, log, arg, view, val, conv,
                   prim, config_value, typed, hist>>

GetPropertySegments(t) ==
    /\ pc[t] = "property_segments"
    /\ LET segments == segments_of(store, local[t])
       IN  res' = [res EXCEPT ![t] =
                     IF segments_complete(local[t], segments)
                     THEN PropertySnapshot(local[t], segments)
                     ELSE ErrorResult("MissingSegments")]
    /\ local' = [local EXCEPT ![t] = None]
    /\ pc' = [pc EXCEPT ![t] = "return"]
    /\ UNCHANGED <<store, locked, dropped, msg, upc, pending, log, arg, view, val, conv,
                   prim, config_value, typed, hist>>

\* get_feature_proxy / get_property_proxy: no validation, no lock
\* mutant of get_feature_proxy: the id is looked up in the snapshot first
get_feature_proxy_Validates(feature_id) ==
    IF feature_id \in DOMAIN store.features
    THEN Ok(FeatureProxy(feature_id))
    ELSE Err("FeatureNotFound")

get_feature_proxy(feature_id) == Ok(FeatureProxy(feature_id))

get_property_proxy(property_id) == Ok(PropertyProxy(property_id))

\* the thread keeps the proxy of an Ok result
GetFeatureProxy(t, feature_id) ==
    /\ CanCall(t)
    /\ LET proxy == get_feature_proxy(feature_id)
       IN  view' = [view EXCEPT ![t] = IF proxy.ok THEN proxy.value ELSE @]
    /\ UNCHANGED <<store, locked, dropped, msg, upc, pending, log, pc, arg, local, res, val, conv,
                   prim, config_value, typed, hist>>

GetPropertyProxy(t, property_id) ==
    /\ CanCall(t)
    /\ LET proxy == get_property_proxy(property_id)
       IN  view' = [view EXCEPT ![t] = IF proxy.ok THEN proxy.value ELSE @]
    /\ UNCHANGED <<store, locked, dropped, msg, upc, pending, log, pc, arg, local, res, val, conv,
                   prim, config_value, typed, hist>>

(***************************************************************************)
(* The views: FeatureSnapshot and PropertySnapshot evaluate the data they  *)
(* hold, FeatureProxy and PropertyProxy read the client's snapshot anew.   *)
(***************************************************************************)
\* FeatureSnapshot::get_value / PropertySnapshot::get_value: no lock, no client
SnapshotValue(snapshot, entity) ==
    IF snapshot.kind = "feature_snapshot"
    THEN FeatureGetValue(snapshot.resource, snapshot.segments, entity)
    ELSE PropertyGetValue(snapshot.resource, snapshot.segments, entity)

\* what a resource of the snapshot config_snapshot evaluates to for the entity
FeatureValueIn(config_snapshot, feature_id, entity) ==
    LET feature == snapshot_get_feature(config_snapshot, feature_id)
    IN  IF ~feature.ok THEN feature
        ELSE LET segments == segments_of(config_snapshot, feature.value)
             IN  IF ~segments_complete(feature.value, segments)
                 THEN Err("MissingSegments")
                 ELSE FeatureGetValue(feature.value, segments, entity)

PropertyValueIn(config_snapshot, property_id, entity) ==
    LET property == snapshot_get_property(config_snapshot, property_id)
    IN  IF ~property.ok THEN property
        ELSE LET segments == segments_of(config_snapshot, property.value)
             IN  IF ~segments_complete(property.value, segments)
                 THEN Err("MissingSegments")
                 ELSE PropertyGetValue(property.value, segments, entity)

\* FeatureProxy::get_value / PropertyProxy::get_value, on the snapshot read
ProxyValue(proxy, config_snapshot, entity) ==
    IF proxy.kind = "feature_proxy"
    THEN FeatureValueIn(config_snapshot, proxy.id, entity)
    ELSE PropertyValueIn(config_snapshot, proxy.id, entity)

\* a proxy view is evaluated: the client's snapshot is locked and read
ProxyGetValueLock(t) ==
    /\ CanCall(t)
    /\ IsProxy(view[t])
    /\ MutexLock
    /\ pc' = [pc EXCEPT ![t] = "proxy_value"]
    /\ UNCHANGED <<store, dropped, msg, upc, pending, log, arg, local, view, res, val, conv,
                   prim, config_value, typed, hist>>

ProxyGetValue(t, entity) ==
    /\ pc[t] = "proxy_value"
    /\ res' = [res EXCEPT ![t] = ValueResult(entity, ProxyValue(view[t], store, entity))]
    /\ pc' = [pc EXCEPT ![t] = "return"]
    /\ UNCHANGED <<store, locked, dropped, msg, upc, pending, log, arg, local, view, val, conv,
                   prim, config_value, typed, hist>>

\* the application lets go of the view a thread holds
DiscardView(t) ==
    /\ pc[t] = "idle"
    /\ view[t] # None
    /\ view' = [view EXCEPT ![t] = None]
    /\ UNCHANGED <<store, locked, dropped, msg, upc, pending, log, pc, arg, local, res, val, conv,
                   prim, config_value, typed, hist>>

\* the client is dropped: no call borrows it and no proxy refers to it; its
\* _thread_terminator, the only Sender, goes with it
DropClient ==
    /\ ~dropped
    /\ \A t \in Threads : pc[t] = "idle" /\ ~IsProxy(view[t])
    /\ dropped' = TRUE
    /\ UNCHANGED <<store, locked, msg, upc, pending, log, thread_vars, val, conv,
                   prim, config_value, typed, hist>>

Next ==
    \/ UpdaterCheck
    \/ UpdaterBlock
    \/ UpdaterRead
    \/ UpdaterReadError
    \/ UpdaterFetch
    \/ UpdaterLock
    \/ UpdaterWrite
    \/ UpdaterWriteSegments
    \/ DropClient
    \/ \E t \in Threads :
         \/ GetFeatureIdsLock(t)
         \/ GetFeatureIds(t)
         \/ GetPropertyIdsLock(t)
         \/ GetPropertyIds(t)
         \/ \E id \in FeatureIds : GetFeatureLock(t, id)
         \/ GetFeatureLookup(t)
         \/ GetFeatureSegments(t)
         \/ \E id \in PropertyIds : GetPropertyLock(t, id)
         \/ GetPropertyLookup(t)
         \/ GetPropertySegments(t)
         \/ \E id \in FeatureIds : GetFeatureProxy(t, id)
         \/ \E id \in PropertyIds : GetPropertyProxy(t, id)
         \/ ProxyGetValueLock(t)
         \/ \E e \in Entities : ProxyGetValue(t, e)
         \/ Return(t)
         \/ DiscardView(t)

Spec == Init /\ [][Next]_vars

(***************************************************************************)
(* Properties of the snapshot store under concurrent install and queries.  *)
(***************************************************************************)
\* the thread is inside a call that has locked the snapshot
InCall(t) == pc[t] # "idle"

\* the FeatureSnapshot / PropertySnapshot a query gives on the whole snapshot c
WholeFeatureSnapshot(c, feature_id) ==
    FeatureSnapshot(c.features[feature_id], segments_of(c, c.features[feature_id]))

WholePropertySnapshot(c, property_id) ==
    PropertySnapshot(c.properties[property_id], segments_of(c, c.properties[property_id]))

WholeSnapshotsOf(c) ==
    {WholeFeatureSnapshot(c, id) : id \in DOMAIN c.features}
        \cup {WholePropertySnapshot(c, id) : id \in DOMAIN c.properties}

\* C1: an install is atomic for the queries: whenever an application thread
\* is inside a query (get_feature_ids, get_property_ids, get_feature,
\* get_property, a proxy's evaluation), the snapshot it reads is a whole
\* snapshot as ConfigurationSnapshot::new built it, the one installed before
\* or the new one, never features of one and segments of another.
C1_InstallAtomicForReaders ==
    \A t \in Threads : InCall(t) => store \in ValidSnapshots

\* C1 witness: a query is reading while the thread waits for the lock with a
\* new snapshot that differs from the one installed
C1_Witness ==
    \E t \in Threads :
        /\ pc[t] \in {"feature_segments", "property_segments", "feature_ids"}
        /\ upc = "lock"
        /\ pending # store

\* C2: a query takes all its data from one installed snapshot: while
\* get_feature / get_property collects the segments, the resource it looked
\* up is still the one of the snapshot in the Mutex, and the snapshot view it
\* returns, and every snapshot view a thread holds, is the resource and the
\* segments of one and the same whole snapshot.
C2_QueryReadsOneVersion ==
    \A t \in Threads :
        /\ pc[t] = "feature_segments" =>
              /\ arg[t] \in DOMAIN store.features
              /\ local[t] = store.features[arg[t]]
        /\ pc[t] = "property_segments" =>
              /\ arg[t] \in DOMAIN store.properties
              /\ local[t] = store.properties[arg[t]]
        /\ (pc[t] = "return" /\ IsSnapshot(res[t])) => res[t] \in WholeSnapshotsOf(store)
        /\ IsSnapshot(view[t]) => \E c \in ValidSnapshots : view[t] \in WholeSnapshotsOf(c)

\* C2 witness: get_feature returns a snapshot view while a different snapshot
\* waits to be installed
C2_Witness ==
    \E t \in Threads :
        /\ pc[t] = "return"
        /\ IsSnapshot(res[t])
        /\ upc = "lock"
        /\ pending # store

(***************************************************************************)
(* Properties of the views.                                                *)
(***************************************************************************)
\* what the resource a snapshot view was made of evaluates to in snapshot c
ResourceValueIn(c, snapshot, entity) ==
    IF snapshot.kind = "feature_snapshot"
    THEN FeatureValueIn(c, snapshot.resource.feature_id, entity)
    ELSE PropertyValueIn(c, snapshot.resource.property_id, entity)

\* a step of the thread that monitors the websocket
UpdaterStep == store' # store \/ upc' # upc \/ msg' # msg \/ pending' # pending

\* C3: a snapshot view is frozen: when get_feature / get_property returns it,
\* it evaluates every entity to the value the resource has in the snapshot
\* installed at that moment, and no later step of the monitoring thread, an
\* install included, changes the view a thread holds.
C3_SnapshotViewFrozen ==
    [][\A t \in Threads :
          /\ (pc[t] = "return" /\ IsSnapshot(res[t]) /\ pc'[t] = "idle") =>
                /\ IsSnapshot(view'[t])
                /\ \A e \in Entities :
                      SnapshotValue(view'[t], e) = ResourceValueIn(store, res[t], e)
          /\ (IsSnapshot(view[t]) /\ UpdaterStep) => view'[t] = view[t]
      ]_vars

\* C3 witness: a thread holds a snapshot view of a feature that evaluates an
\* entity to another value than the snapshot installed now does
C3_Witness ==
    \E t \in Threads, e \in Entities :
        /\ pc[t] = "idle"
        /\ view[t].kind = "feature_snapshot"
        /\ store \in ValidSnapshots
        /\ SnapshotValue(view[t], e).ok
        /\ SnapshotValue(view[t], e) # ResourceValueIn(store, view[t], e)

\* C4: a proxy view is live: at the step that completes an install, every
\* proxy a thread holds evaluates, on the snapshot now in the Mutex, to the
\* value its resource has in the snapshot that was fetched and installed, and
\* an evaluation returns the value the resource has in the snapshot that is
\* in the Mutex when it evaluates.
C4_ProxyViewLive ==
    [][/\ (upc = "write_segments" /\ upc' = "check") =>
              \A t \in Threads, e \in Entities :
                  IsProxy(view[t]) =>
                      ProxyValue(view[t], store', e) = ProxyValue(view[t], pending, e)
       /\ \A t \in Threads :
              (pc[t] = "proxy_value" /\ pc'[t] = "return") =>
                  /\ store \in ValidSnapshots
                  /\ \E e \in Entities :
                        res'[t] = ValueResult(e, ProxyValue(view[t], store, e))
      ]_vars

\* C4 witness: a thread holds a proxy while a snapshot is about to be
\* installed in which the proxy's resource evaluates to another value
C4_Witness ==
    \E t \in Threads, e \in Entities :
        /\ IsProxy(view[t])
        /\ upc = "lock"
        /\ ProxyValue(view[t], store, e).ok
        /\ ProxyValue(view[t], pending, e).ok
        /\ ProxyValue(view[t], store, e) # ProxyValue(view[t], pending, e)

(***************************************************************************)
(* Properties of the thread that monitors the websocket.                   *)
(***************************************************************************)
\* socket.read() returns in this step: the thread has received message msg'
ReadsMessage == upc = "read" /\ upc' # "read" /\ msg' \in Messages

\* the errors get_configuration_snapshot fails with
FetchErrors == {"transport", "parse", "EnvironmentNotFound", "MissingSegments"}

\* C5 (as claimed): once the client is dropped, no further snapshot is
\* installed: the store never changes after the drop.
C5_NoInstallAfterDrop ==
    [][dropped => store' = store]_vars

\* C6 (as claimed): after the client is dropped, the thread exits at the
\* boundary that follows the next message it receives, whatever the message:
\* a message received after the drop never sends the thread back to the call
\* of socket.read().
C6_ExitsAfterNextMessage ==
    [][(dropped /\ ReadsMessage) => upc' # "wait"]_vars

\* C7: the text message "test message" is ignored: the thread goes back to
\* wait for the next message, the store, the fetched snapshot and the log
\* unchanged.
C7_KeepAliveIgnored ==
    [][(ReadsMessage /\ msg' = KeepAlive) =>
          /\ upc' = "wait"
          /\ store' = store
          /\ pending' = pending
          /\ log' = log
      ]_vars

\* C7 witness: the thread has read the keep-alive and goes back to wait,
\* after an install has changed the store
C7_Witness ==
    /\ upc = "wait"
    /\ msg = KeepAlive
    /\ \E t \in Threads : IsSnapshot(view[t]) /\ view[t] \notin WholeSnapshotsOf(store)

\* C8: a text message other than "test message" makes the thread fetch; a
\* snapshot fetched and built is locked in next, it leaves the thread only by
\* being installed whole in the store, and no message is read while a
\* fetched snapshot is not installed.
C8_RefreshFetchesAndInstalls ==
    [][/\ (ReadsMessage /\ msg'.type = "Text" /\ msg'.text # "test message")
              => upc' = "fetch"
       /\ (upc = "fetch" /\ pending' # None) => upc' = "lock"
       /\ (msg' \in Messages /\ msg' # msg) => (upc = "read" /\ pending = None)
       /\ (pending # None /\ pending' # pending) => (pending' = None /\ store' = pending)
       /\ upc' \in {"wait", "read"} => pending' = None
      ]_vars

\* C8 witness: a snapshot fetched after a refresh message, other than the
\* one in the store, is being installed
C8_Witness ==
    /\ upc = "write_segments"
    /\ pending # None
    /\ pending.segments # store.segments
    /\ store.features = pending.features

\* C9: a close frame ends the loop: nothing is fetched or installed, the
\* error is printed, and once the thread is done the store keeps the snapshot
\* installed last.
C9_CloseTerminates ==
    [][/\ (ReadsMessage /\ msg'.type = "Close") =>
              /\ upc' = "done"
              /\ store' = store
              /\ pending' = None
              /\ log' = "Connection closed by the server"
       /\ upc = "done" => (upc' = "done" /\ store' = store)
      ]_vars

\* C9 witness: the thread is done after a close frame, and a thread holds a
\* snapshot view of the store as it was left
C9_Witness ==
    /\ upc = "done"
    /\ msg \in Messages
    /\ msg.type = "Close"
    /\ log = "Connection closed by the server"
    /\ \E t \in Threads : IsSnapshot(view[t]) /\ view[t] \in WholeSnapshotsOf(store)

\* C10: a failed refetch ends the loop without an install: the thread leaves
\* the fetch either with a built snapshot to install or done with the error
\* printed and the store untouched; once done it stays done, reads no message
\* and never writes the store; it does not hold the Mutex, and the ids a
\* query returns are those of the snapshot in the store.
C10_FailedRefetchTerminates ==
    [][/\ (upc = "fetch" /\ upc' # "fetch") =>
              \/ (upc' = "lock" /\ pending' \in ValidSnapshots /\ log' = log)
              \/ (upc' = "done" /\ pending' = None /\ store' = store /\ log' \in FetchErrors)
       /\ upc = "done" =>
              (upc' = "done" /\ store' = store /\ msg' = msg /\ pending' = None)
       /\ (upc = "done" /\ locked) => \E t \in Threads : InCall(t)
       /\ \A t \in Threads :
              (upc = "done" /\ pc[t] = "return" /\ res[t].kind = "ids") =>
                  res[t].ids \in {DOMAIN store.features, DOMAIN store.properties}
      ]_vars

\* C10 witness: the thread is done after a failed refetch, the client is
\* alive and a query returns the ids of the snapshot installed last
C10_Witness ==
    /\ upc = "done"
    /\ log \in FetchErrors
    /\ ~dropped
    /\ \E t \in Threads : pc[t] = "return" /\ res[t].kind = "ids"

(***************************************************************************)
(* Properties of the lock and of the catalog that is installed.            *)
(***************************************************************************)
\* the monitoring thread is inside the assignment that installs a snapshot
UpdaterInstalls == upc \in {"write", "write_segments"}

\* C11: the monitoring thread holds the Mutex only for the assignment of a
\* snapshot it has already fetched and built: whenever the Mutex is held and
\* no application thread is inside a query, the thread is in the assignment
\* with the built snapshot in hand; waiting on the socket, fetching or done
\* it does not hold the Mutex, so any lock held then is a query's.
C11_LockOnlyForAssignment ==
    /\ (locked /\ \A t \in Threads : ~InCall(t)) =>
          (UpdaterInstalls /\ pending \in ValidSnapshots)
    /\ UpdaterInstalls => (locked /\ \A t \in Threads : ~InCall(t))
    /\ ~UpdaterInstalls => (locked <=> \E t \in Threads : InCall(t))

\* C11 witness: a query takes the Mutex and reads while the monitoring thread
\* is fetching the catalog over the network
C11_Witness ==
    /\ upc = "fetch"
    /\ \E t \in Threads : pc[t] \in {"feature_lookup", "feature_ids", "proxy_value"}

\* every segment id the targeting rules of the snapshot's features and
\* properties name resolves in the snapshot's segments
IntegrityHolds(c) ==
    /\ \A id \in DOMAIN c.features :
          all_segment_ids(c.features[id]) \subseteq DOMAIN c.segments
    /\ \A id \in DOMAIN c.properties :
          all_segment_ids(c.properties[id]) \subseteq DOMAIN c.segments

SegEu == Segment("s2", <<SegmentRule("region", "is", <<"eu">>)>>)

\* the targeting rules of the features of the catalogs queried
FeatureRuleSets ==
    {<<>>,
     <<TargetingRule(<<Segments(<<"s1">>)>>, JStr("premium"), 1, None)>>,
     <<TargetingRule(<<Segments(<<"s1">>)>>, JStr("$default"), 1, None)>>,
     <<TargetingRule(<<Segments(<<"s1">>)>>, JStr("premium"), 1, JNum(0))>>,
     <<TargetingRule(<<Segments(<<"s1">>)>>, JStr("vip"), 2, None),
       TargetingRule(<<Segments(<<"s2">>), Segments(<<"s1">>)>>, JStr("$default"), 1, JNum(100))>>,
     <<TargetingRule(<<Segments(<<"s1">>)>>, JStr("vip"), 2, None),
       TargetingRule(<<Segments(<<"s1">>)>>, JStr("premium"), 1, None)>>,
     <<TargetingRule(<<Segments(<<"s1">>)>>, JStr("premium"), 1, None),
       TargetingRule(<<Segments(<<"s1">>)>>, JStr("vip"), 2, None)>>}

NumericRuleSets ==
    {<<>>,
     <<TargetingRule(<<Segments(<<"s2">>)>>, JNum(11), 1, None)>>,
     <<TargetingRule(<<Segments(<<"s2">>)>>, JStr("$default"), 1, None)>>,
     <<TargetingRule(<<Segments(<<"s1">>)>>, JNum(11), 1, JNum(0))>>,
     <<TargetingRule(<<Segments(<<"s2">>)>>, JNum(22), 2, None),
       TargetingRule(<<Segments(<<"s2">>)>>, JNum(11), 1, None)>>}

\* a catalog of the environment of the context with the given resources
QueryDocument(features, properties) ==
    Configuration(<<Environment(ContextEnvironmentId, features, properties)>>,
                  <<SegGold, SegEu>>)

\* catalogs with one feature or one property each, over every combination of
\* the enabled flag, the rollout percentage and the targeting rules
QueryDocuments ==
    {QueryDocument(<<Feature("F1", "f1", "STRING", JStr("on"), JStr("off"),
                             rules, enabled, rollout)>>, <<>>) :
        rules \in FeatureRuleSets, enabled \in BOOLEAN, rollout \in {0, 50, 100}}
    \cup
    {QueryDocument(<<Feature("F2", "f2", "NUMERIC", JNum(99), JNum(-99),
                             rules, enabled, rollout)>>, <<>>) :
        rules \in NumericRuleSets, enabled \in BOOLEAN, rollout \in {0, 100}}
    \cup
    {QueryDocument(<<>>, <<Property("P1", "p1", "NUMERIC", JNum(7), rules)>>) :
        rules \in NumericRuleSets}

\* a document whose property p1 names a segment the document does not define
DocPropertyMissingSegment ==
    Configuration(
      <<Environment("dev", <<>>,
          <<Property("P1", "p1", "NUMERIC", JNum(7),
              <<TargetingRule(<<Segments(<<"s1">>), Segments(<<"s3">>)>>, JNum(11), 1, None)>>)>>)>>,
      <<SegGold>>)

\* the values of ConfigurationSnapshot the queries are applied to: the
\* snapshots of the catalogs, and two whose rules name an undefined segment
QuerySnapshots ==
    ValidSnapshots
    \cup {ConfigurationSnapshot_new(ContextEnvironmentId, d).value : d \in QueryDocuments}
    \cup {SnapshotMaps(d.environments[1], d) :
            d \in {DocMissingSegment, DocPropertyMissingSegment}}

InitQueries ==
    /\ store \in QuerySnapshots
    /\ locked = FALSE
    /\ dropped = FALSE
    /\ msg = None
    /\ upc = "done"
    /\ pending = None
    /\ log = "read failed"
    /\ pc = [t \in Threads |-> "idle"]
    /\ arg = [t \in Threads |-> ""]
    /\ local = [t \in Threads |-> None]
    /\ view = [t \in Threads |-> None]
    /\ res = [t \in Threads |-> None]
    /\ val = None
    /\ conv = None
    /\ prim = None
    /\ config_value = None
    /\ typed = None
    /\ hist = None

NextQueries ==
    \E t \in Threads :
         \/ GetFeatureIdsLock(t)
         \/ GetFeatureIds(t)
         \/ GetPropertyIdsLock(t)
         \/ GetPropertyIds(t)
         \/ \E id \in FeatureIds : GetFeatureLock(t, id)
         \/ GetFeatureLookup(t)
         \/ GetFeatureSegments(t)
         \/ \E id \in PropertyIds : GetPropertyLock(t, id)
         \/ GetPropertyLookup(t)
         \/ GetPropertySegments(t)
         \/ \E id \in FeatureIds : GetFeatureProxy(t, id)
         \/ \E id \in PropertyIds : GetPropertyProxy(t, id)
         \/ ProxyGetValueLock(t)
         \/ \E e \in Entities : ProxyGetValue(t, e)
         \/ Return(t)
         \/ DiscardView(t)

SpecQueries == InitQueries /\ [][NextQueries]_vars

\* what get_feature / get_property give on snapshot c: the unknown id, the
\* undefined segment, or the view of the resource and the segments it names
ExpectedGetFeature(c, feature_id) ==
    IF feature_id \notin DOMAIN c.features THEN ErrorResult("FeatureNotFound")
    ELSE IF \E id \in all_segment_ids(c.features[feature_id]) : id \notin DOMAIN c.segments
    THEN ErrorResult("MissingSegments")
    ELSE WholeFeatureSnapshot(c, feature_id)

ExpectedGetProperty(c, property_id) ==
    IF property_id \notin DOMAIN c.properties THEN ErrorResult("PropertyNotFound")
    ELSE IF \E id \in all_segment_ids(c.properties[property_id]) : id \notin DOMAIN c.segments
    THEN ErrorResult("MissingSegments")
    ELSE WholePropertySnapshot(c, property_id)

\* C13: get_feature(id) / get_property(id) return the unknown-resource error
\* when the id is not in the snapshot, MissingSegments when a segment id the
\* resource's rules name is not in the snapshot's segments, and the snapshot
\* view otherwise; no step of a call changes the snapshot in the Mutex.
C13_GetResourceOutcomes ==
    [][\A t \in Threads :
          /\ (pc[t] \in {"feature_lookup", "feature_segments"} /\ pc'[t] = "return") =>
                res'[t] = ExpectedGetFeature(store, arg[t])
          /\ (pc[t] \in {"property_lookup", "property_segments"} /\ pc'[t] = "return") =>
                res'[t] = ExpectedGetProperty(store, arg[t])
          /\ pc'[t] # pc[t] => store' = store
      ]_vars

\* C13 witness: get_feature returns MissingSegments for a feature of the
\* snapshot whose rule names an undefined segment
C13_Witness ==
    \E t \in Threads :
        /\ pc[t] = "return"
        /\ arg[t] \in DOMAIN store.features
        /\ res[t] = ErrorResult("MissingSegments")

(***************************************************************************)
(* Properties of the facade queries under installs.                        *)
(***************************************************************************)
\* the id of the proxy is not in the snapshot c
UnknownIn(c, proxy) ==
    IF proxy.kind = "feature_proxy" THEN proxy.id \notin DOMAIN c.features
    ELSE proxy.id \notin DOMAIN c.properties

C15_IdsOfInstalledCatalog ==
    [][\A t \in Threads :
          /\ (pc[t] = "feature_ids" /\ pc'[t] = "return") =>
                /\ store \in ValidSnapshots
                /\ res'[t] = IdsResult(DOMAIN store.features)
                /\ \A id \in FeatureIds :
                      id \in res'[t].ids <=> snapshot_get_feature(store, id).ok
          /\ (pc[t] = "property_ids" /\ pc'[t] = "return") =>
                /\ store \in ValidSnapshots
                /\ res'[t] = IdsResult(DOMAIN store.properties)
                /\ \A id \in PropertyIds :
                      id \in res'[t].ids <=> snapshot_get_property(store, id).ok
          /\ (pc[t] = "return" /\ res[t].kind = "ids") => store' = store
      ]_vars

\* C15 witness: after an install, shown by the snapshot view of another
\* catalog a thread holds, get_feature_ids returns the ids of the new catalog
C15_Witness ==
    \E t, u \in Threads :
        /\ pc[t] = "return"
        /\ res[t] = IdsResult({"f1", "f2"})
        /\ IsSnapshot(view[u])
        /\ view[u] \notin WholeSnapshotsOf(store)

(***************************************************************************)
(* Properties of the evaluation of a feature or property for an entity.    *)
(***************************************************************************)
\* the thread returns from the evaluation of a proxy whose resource is in the
\* snapshot read
ProxyReturns(t) ==
    /\ pc[t] = "return"
    /\ res[t].kind = "value"
    /\ ~UnknownIn(store, view[t])
    /\ IntegrityHolds(store)

\* the resource, the segments and the entity of that evaluation
ProxyResource(t) ==
    IF view[t].kind = "feature_proxy"
    THEN store.features[view[t].id] ELSE store.properties[view[t].id]

ProxyEntity(t) == CHOOSE e \in Entities : e.id = res[t].entity

IsFeature(resource) == "feature_id" \in DOMAIN resource

\* the Value of the raw value of a resource of the catalogs: the STRING
\* resources hold strings, the NUMERIC ones integers of the i64 range
Typed(kind, raw) ==
    IF kind = "STRING" THEN Ok(VString(raw.v))
    ELSE Ok([variant |-> "Int64", v |-> raw.v])

\* a feature whose enabled flag is false has the value disabled_value, typed
DisabledValue(resource, value) ==
    (IsFeature(resource) /\ ~resource.enabled) =>
        /\ value = ValueTryFrom(resource.kind, resource.disabled_value)
        /\ value = Typed(resource.kind, resource.disabled_value)

\* C16: a feature whose enabled flag is false evaluates, for every entity,
\* to its disabled_value typed by its kind, whatever its rules, the entity's
\* attributes and the rollout percentages are: so do the snapshot views the
\* threads hold and the evaluations of proxies that return.
C16_DisabledFeatureValue ==
    \A t \in Threads :
        /\ IsSnapshot(view[t]) =>
              \A e \in Entities :
                  DisabledValue(view[t].resource, SnapshotValue(view[t], e))
        /\ ProxyReturns(t) => DisabledValue(ProxyResource(t), res[t].value)

\* C16 witness: a disabled feature with full rollout and a targeting rule
\* that matches the entity is evaluated through a proxy
C16_Witness ==
    \E t \in Threads :
        /\ ProxyReturns(t)
        /\ IsFeature(ProxyResource(t))
        /\ ~ProxyResource(t).enabled
        /\ ProxyResource(t).rollout_percentage = 100
        /\ MatchingRules(ProxyResource(t), store.segments, ProxyEntity(t)) # {}

\* an enabled feature none of whose rules matches the entity has the value
\* enabled_value at rollout 100 and disabled_value at rollout 0
DefaultPathValue(resource, segments, entity, value) ==
    (/\ IsFeature(resource)
     /\ resource.enabled
     /\ MatchingRules(resource, segments, entity) = {}) =>
        /\ resource.rollout_percentage = 100 =>
              value = Typed(resource.kind, resource.enabled_value)
        /\ resource.rollout_percentage = 0 =>
              value = Typed(resource.kind, resource.disabled_value)

\* C17: an enabled feature for which no targeting rule matches the entity
\* evaluates to enabled_value when its rollout_percentage is 100 and to
\* disabled_value when it is 0, for every entity.
C17_RolloutEnds ==
    \A t \in Threads :
        /\ IsSnapshot(view[t]) =>
              \A e \in Entities :
                  DefaultPathValue(view[t].resource, view[t].segments, e,
                                   SnapshotValue(view[t], e))
        /\ ProxyReturns(t) =>
              DefaultPathValue(ProxyResource(t), store.segments, ProxyEntity(t),
                               res[t].value)

\* C17 witness: an enabled feature with rollout 0 and no matching rule is
\* evaluated for the entity whose rollout hash is the least, 0
C17_Witness ==
    \E t \in Threads :
        /\ ProxyReturns(t)
        /\ IsFeature(ProxyResource(t))
        /\ ProxyResource(t).enabled
        /\ ProxyResource(t).rollout_percentage = 0
        /\ MatchingRules(ProxyResource(t), store.segments, ProxyEntity(t)) = {}
        /\ RolloutHash(ProxyEntity(t).id, ProxyResource(t).feature_id) = 0

\* the rule selected for the entity has the sentinel as its value
SelectsSentinel(resource, segments, entity) ==
    /\ MatchingRules(resource, segments, entity) # {}
    /\ FirstMatchingRule(resource, segments, entity).value.t = "string"
    /\ FirstMatchingRule(resource, segments, entity).value.v = "$default"

\* the value is not the sentinel, and where the selected rule's value is the
\* sentinel it is the enabled_value of the feature, the value of the property
NoSentinel(resource, segments, entity, value) ==
    /\ ~(value.ok /\ value.value.variant = "String" /\ value.value.v = "$default")
    /\ (SelectsSentinel(resource, segments, entity) /\ IsFeature(resource)
            /\ resource.enabled) =>
          value = Typed(resource.kind, resource.enabled_value)
    /\ (SelectsSentinel(resource, segments, entity) /\ ~IsFeature(resource)) =>
          value = Typed(resource.kind, resource.value)

\* C18: no evaluation returns the string "$default": when the value of the
\* targeting rule selected for the entity is "$default", an enabled feature
\* evaluates to its enabled_value and a property to its value.
C18_SentinelNeverReturned ==
    \A t \in Threads :
        /\ IsSnapshot(view[t]) =>
              \A e \in Entities :
                  NoSentinel(view[t].resource, view[t].segments, e,
                             SnapshotValue(view[t], e))
        /\ ProxyReturns(t) =>
              NoSentinel(ProxyResource(t), store.segments, ProxyEntity(t), res[t].value)

\* C18 witness: a NUMERIC feature whose selected rule has the value
\* "$default" is evaluated, to Int64(99)
C18_Witness ==
    \E t \in Threads :
        /\ ProxyReturns(t)
        /\ IsFeature(ProxyResource(t))
        /\ ProxyResource(t).enabled
        /\ ProxyResource(t).kind = "NUMERIC"
        /\ SelectsSentinel(ProxyResource(t), store.segments, ProxyEntity(t))
        /\ res[t].value = Ok([variant |-> "Int64", v |-> 99])

(***************************************************************************)
(* value.rs: Value and its conversions from and to the primitive types.    *)
(* The application makes a Value of a primitive and converts it.           *)
(***************************************************************************)
\* mutant of Value_from_f64: a whole number is kept as the integer it is
Value_from_f64_Narrows(x) == [variant |-> "Int64", v |-> x]

\* impl From<f64 / u64 / i64 / String / bool> for Value
Value_from_f64(x) == [variant |-> "Float64", v |-> x]
Value_from_u64(x) == [variant |-> "UInt64", v |-> x]
Value_from_i64(x) == [variant |-> "Int64", v |-> x]
Value_from_String(x) == [variant |-> "String", v |-> x]
Value_from_bool(x) == [variant |-> "Boolean", v |-> x]

\* mutant of TryFrom_f64: an integer is converted as by a cast
TryFrom_f64_AcceptsIntegers(value) ==
    CASE value.variant \in {"Float64", "Int64", "UInt64"} -> Ok(value.v)
      [] OTHER -> Err("MismatchType")

\* impl TryFrom<Value> for f64
TryFrom_f64(value) ==
    CASE value.variant = "Float64" -> Ok(value.v)
      [] OTHER -> Err("MismatchType")

\* mutant of TryFrom_u64: the i64 is cast, which wraps a negative number
TryFrom_u64_WrapsAround(value) ==
    CASE value.variant = "UInt64" -> Ok(value.v)
      [] value.variant = "Int64" -> Ok(value.v % (2^IntBits))
      [] OTHER -> Err("MismatchType")

\* impl TryFrom<Value> for u64: u64::try_from(i64) fails below 0
TryFrom_u64(value) ==
    CASE value.variant = "UInt64" -> Ok(value.v)
      [] value.variant = "Int64" ->
            IF value.v >= 0 /\ value.v <= U64_MAX THEN Ok(value.v)
            ELSE Err("MismatchType")
      [] OTHER -> Err("MismatchType")

\* impl TryFrom<Value> for i64: i64::try_from(u64) fails above i64::MAX
TryFrom_i64(value) ==
    CASE value.variant = "Int64" -> Ok(value.v)
      [] value.variant = "UInt64" ->
            IF value.v >= I64_MIN /\ value.v <= I64_MAX THEN Ok(value.v)
            ELSE Err("MismatchType")
      [] OTHER -> Err("MismatchType")

\* impl TryFrom<Value> for String
TryFrom_String(value) ==
    CASE value.variant = "String" -> Ok(value.v)
      [] OTHER -> Err("MismatchType")

\* impl TryFrom<Value> for bool
TryFrom_bool(value) ==
    CASE value.variant = "Boolean" -> Ok(value.v)
      [] OTHER -> Err("MismatchType")

Primitives == {"f64", "u64", "i64", "String", "bool"}

\* TryInto::<T>::try_into(value)
try_into(target, value) ==
    CASE target = "f64" -> TryFrom_f64(value)
      [] target = "u64" -> TryFrom_u64(value)
      [] target = "i64" -> TryFrom_i64(value)
      [] target = "String" -> TryFrom_String(value)
      [] target = "bool" -> TryFrom_bool(value)

\* Value::from(p) of a primitive p of the type of that name
Value_from(type, p) ==
    CASE type = "f64" -> Value_from_f64(p)
      [] type = "u64" -> Value_from_u64(p)
      [] type = "i64" -> Value_from_i64(p)
      [] type = "String" -> Value_from_String(p)
      [] type = "bool" -> Value_from_bool(p)

\* a primitive p of the type of that name
Primitive(type, p) == [type |-> type, p |-> p]

\* the application holds a primitive and the Value made of it: every i64,
\* every u64, some f64 (whole numbers among them), strings and booleans
InitValue ==
    /\ store = ConfigurationSnapshot_new(ContextEnvironmentId, Doc1).value
    /\ locked = FALSE
    /\ dropped = FALSE
    /\ msg = None
    /\ upc = "done"
    /\ pending = None
    /\ log = "read failed"
    /\ pc = [t \in Threads |-> "idle"]
    /\ arg = [t \in Threads |-> ""]
    /\ local = [t \in Threads |-> None]
    /\ view = [t \in Threads |-> None]
    /\ res = [t \in Threads |-> None]
    /\ \/ \E x \in I64_MIN..I64_MAX : prim = Primitive("i64", x)
       \/ \E x \in 0..U64_MAX : prim = Primitive("u64", x)
       \/ \E x \in {-2, 0, 42} : prim = Primitive("f64", x)
       \/ \E x \in {"value", "42"} : prim = Primitive("String", x)
       \/ \E x \in BOOLEAN : prim = Primitive("bool", x)
    /\ val = Value_from(prim.type, prim.p)
    /\ conv = None
    /\ config_value = None
    /\ typed = None
    /\ hist = None

\* value.clone().try_into() to the primitive type target
Convert(target) ==
    /\ val # None
    /\ conv' = [target |-> target, result |-> try_into(target, val)]
    /\ UNCHANGED <<store, locked, dropped, msg, upc, pending, log, thread_vars, val,
                   prim, config_value, typed, hist>>

\* Value::from(p) of the primitive p the conversion gave: the application
\* goes on with p and the Value made of it
Remake ==
    /\ conv # None
    /\ conv.result.ok
    /\ prim' = Primitive(conv.target, conv.result.value)
    /\ val' = Value_from(conv.target, conv.result.value)
    /\ conv' = None
    /\ UNCHANGED <<store, locked, dropped, msg, upc, pending, log, thread_vars,
                   config_value, typed, hist>>

NextValue ==
    \/ \E target \in Primitives : Convert(target)
    \/ Remake

SpecValue == InitValue /\ [][NextValue]_vars

\* the last conversion was of a Value of variant from to the primitive to
Converted(from, to) == conv # None /\ val.variant = from /\ conv.target = to

\* C19: the conversion between the signed and the unsigned integer is range
\* checked: Int64(v) converts to u64 exactly when v >= 0 and UInt64(v) to i64
\* exactly when v <= i64::MAX, the result is v, in the range of the target,
\* and outside the range the conversion fails with MismatchType.
C19_SignedUnsignedRangeChecked ==
    /\ Converted("Int64", "u64") =>
          /\ conv.result.ok <=> val.v >= 0
          /\ conv.result.ok => (conv.result.value = val.v /\ conv.result.value \in 0..U64_MAX)
          /\ ~conv.result.ok => conv.result = Err("MismatchType")
    /\ Converted("UInt64", "i64") =>
          /\ conv.result.ok <=> val.v <= I64_MAX
          /\ conv.result.ok =>
                (conv.result.value = val.v /\ conv.result.value \in I64_MIN..I64_MAX)
          /\ ~conv.result.ok => conv.result = Err("MismatchType")

\* C19 witness: the least u64 that is no i64 was converted to i64, and failed
C19_Witness ==
    /\ Converted("UInt64", "i64")
    /\ val.v = I64_MAX + 1
    /\ conv.result = Err("MismatchType")

\* C20: apart from the pair of integers, a Value converts only to the
\* primitive of its own variant: Float64 only to f64, String only to String,
\* Boolean only to bool, Int64 and UInt64 only to i64 and u64; every other
\* conversion fails with MismatchType, that of a whole number to f64 too.
C20_CrossVariantFails ==
    conv # None =>
        /\ conv.target = "f64" => (conv.result.ok <=> val.variant = "Float64")
        /\ conv.target = "String" => (conv.result.ok <=> val.variant = "String")
        /\ conv.target = "bool" => (conv.result.ok <=> val.variant = "Boolean")
        /\ conv.target \in {"u64", "i64"} =>
              (conv.result.ok => val.variant \in {"Int64", "UInt64"})
        /\ conv.result.ok => conv.result.value = val.v
        /\ ~conv.result.ok => conv.result = Err("MismatchType")

\* C20 witness: the conversion of Int64(42) to f64 failed
C20_Witness ==
    /\ Converted("Int64", "f64")
    /\ val.v = 42
    /\ conv.result = Err("MismatchType")


\* the primitive type a Value of the variant converts to without a check
OwnPrimitive(variant) ==
    CASE variant = "Float64" -> "f64"
      [] variant = "UInt64" -> "u64"
      [] variant = "Int64" -> "i64"
      [] variant = "String" -> "String"
      [] variant = "Boolean" -> "bool"

\* C21: the conversions round trip. The Value made of a primitive p converts
\* back to the type of p as Ok(p), for i64, u64, f64, String and bool; and a
\* Value converted to the primitive of its own variant, of which a Value is
\* made again, is the same Value.
C21_RoundTrip ==
    [][/\ (conv' # None /\ conv'.target = prim'.type) =>
              conv'.result = Ok(prim'.p)
       /\ (conv # None /\ conv' = None /\ conv.target = OwnPrimitive(val.variant)) =>
              (val' = val /\ prim' = prim)]_vars

\* C21 witness: Value::from(-2 as i64) was converted to i64, which gave -2
C21_Witness ==
    /\ prim = Primitive("i64", -2)
    /\ val = [variant |-> "Int64", v |-> -2]
    /\ conv = [target |-> "i64", result |-> Ok(-2)]


(***************************************************************************)
(* models.rs: the typing of a value of the configuration document. The     *)
(* document gives a ConfigValue, which is typed as the kind of its         *)
(* resource.                                                               *)
(***************************************************************************)
ValueKinds == {"NUMERIC", "BOOLEAN", "STRING"}

\* the ConfigValue is an integer from below i64::MIN to above u64::MAX, a
\* number serde_json holds as a float (whole or not), a string or a boolean
InitTyping ==
    /\ store = ConfigurationSnapshot_new(ContextEnvironmentId, Doc1).value
    /\ locked = FALSE
    /\ dropped = FALSE
    /\ msg = None
    /\ upc = "done"
    /\ pending = None
    /\ log = "read failed"
    /\ pc = [t \in Threads |-> "idle"]
    /\ arg = [t \in Threads |-> ""]
    /\ local = [t \in Threads |-> None]
    /\ view = [t \in Threads |-> None]
    /\ res = [t \in Threads |-> None]
    /\ val = None
    /\ conv = None
    /\ prim = None
    /\ \/ \E n \in (I64_MIN - 2)..(U64_MAX + 2) : config_value = JNum(n)
       \/ \E n \in {-2, 0, 42, U64_MAX + 1} : config_value = JFloat(n)
       \/ \E s \in {"42", "value", "$default"} : config_value = JStr(s)
       \/ \E b \in BOOLEAN : config_value = JBool(b)
    /\ typed = None
    /\ hist = None

\* (kind, value).try_into() to a Value
TypeValue(kind) ==
    /\ config_value # None
    /\ typed' = [kind |-> kind, result |-> ValueTryFrom(kind, config_value)]
    /\ UNCHANGED <<store, locked, dropped, msg, upc, pending, log, thread_vars,
                   val, conv, prim, config_value, hist>>

NextTyping == \E kind \in ValueKinds : TypeValue(kind)

SpecTyping == InitTyping /\ [][NextTyping]_vars

\* the ConfigValue was typed last as NUMERIC
TypedNumeric == typed # None /\ typed.kind = "NUMERIC"

\* the ConfigValue is a number serde_json holds as an integer
IsInteger(cv) == cv.t = "number" /\ cv.integral

\* C22: a value of kind NUMERIC is typed Int64 when the number is an integer
\* of the i64 range, otherwise UInt64 when it is an integer of the u64 range,
\* otherwise Float64, with the number as the value; so UInt64 only types an
\* integer above i64::MAX; a value that is no number gives an error and no
\* Value.
C22_NumericTyping ==
    TypedNumeric =>
        /\ config_value.t = "number" =>
              /\ typed.result.ok
              /\ typed.result.value.v = config_value.v
              /\ typed.result.value.variant =
                    IF IsInteger(config_value) /\ config_value.v \in I64_MIN..I64_MAX
                    THEN "Int64"
                    ELSE IF IsInteger(config_value) /\ config_value.v \in 0..U64_MAX
                    THEN "UInt64"
                    ELSE "Float64"
              /\ typed.result.value.variant = "UInt64" => config_value.v > I64_MAX
        /\ config_value.t # "number" => ~typed.result.ok

\* C22 witness: the least integer above i64::MAX was typed, as UInt64
C22_Witness ==
    /\ TypedNumeric
    /\ config_value = JNum(I64_MAX + 1)
    /\ typed.result = Ok([variant |-> "UInt64", v |-> I64_MAX + 1])


\* the least order among the targeting rules that match the entity
LeastOrder(resource, segments, entity) ==
    CHOOSE n \in {r.order : r \in MatchingRules(resource, segments, entity)} :
        \A q \in MatchingRules(resource, segments, entity) : n <= q.order

\* the resource with its targeting rules listed the other way round
Reversed(resource) ==
    LET rules == resource.segment_rules
    IN  [resource EXCEPT
            !.segment_rules = [i \in 1..Len(rules) |-> rules[Len(rules) + 1 - i]]]

\* the resource without the matching rules whose order is not the least
WithoutLaterRules(resource, segments, entity) ==
    LET keeps(r) == \/ ~TargetingRuleMatches(r, segments, entity)
                    \/ r.order = LeastOrder(resource, segments, entity)
    IN  [resource EXCEPT !.segment_rules = SelectSeq(resource.segment_rules, keeps)]

GetValue(resource, segments, entity) ==
    IF IsFeature(resource) THEN FeatureGetValue(resource, segments, entity)
    ELSE PropertyGetValue(resource, segments, entity)

\* where rules match, the value is that of the resource with its rules
\* reversed and that of the resource with only the least matching rule; it
\* is the value of that rule when the rule has a value of its own and no
\* rollout, and the resource is a property or an enabled feature
DecidedByLeastOrder(resource, segments, entity, value) ==
    MatchingRules(resource, segments, entity) # {} =>
        /\ value = GetValue(Reversed(resource), segments, entity)
        /\ value = GetValue(WithoutLaterRules(resource, segments, entity), segments, entity)
        /\ \A r \in MatchingRules(resource, segments, entity) :
              (/\ r.order = LeastOrder(resource, segments, entity)
               /\ r.rollout_percentage = None
               /\ ~(r.value.t = "string" /\ r.value.v = "$default")
               /\ (IsFeature(resource) => resource.enabled)) =>
                  value = Typed(resource.kind, r.value)

\* C23: when several targeting rules of a resource match the entity, the one
\* with the least order decides the value, wherever it stands in the list of
\* rules: a matching rule of a larger order does not influence the value.
C23_LeastOrderDecides ==
    \A t \in Threads :
        /\ IsSnapshot(view[t]) =>
              \A e \in Entities :
                  DecidedByLeastOrder(view[t].resource, view[t].segments, e,
                                      SnapshotValue(view[t], e))
        /\ ProxyReturns(t) =>
              DecidedByLeastOrder(ProxyResource(t), store.segments, ProxyEntity(t),
                                  res[t].value)

\* C23 witness: two rules match the entity, the one of order 2 is listed
\* first, and the evaluation returns the value of the rule of order 1
C23_Witness ==
    \E t \in Threads :
        /\ ProxyReturns(t)
        /\ IsFeature(ProxyResource(t))
        /\ ProxyResource(t).enabled
        /\ Cardinality(MatchingRules(ProxyResource(t), store.segments, ProxyEntity(t))) = 2
        /\ ProxyResource(t).segment_rules[1].order = 2
        /\ ProxyResource(t).segment_rules[2].value = JStr("premium")
        /\ res[t].value = Ok(VString("premium"))


\* the segment ids the targeting rules of the resource name
ReferencedSegmentIds(resource) ==
    UNION {UNION {{resource.segment_rules[i].rules[j].segments[k] :
                      k \in DOMAIN resource.segment_rules[i].rules[j].segments} :
                  j \in DOMAIN resource.segment_rules[i].rules} :
           i \in DOMAIN resource.segment_rules}

\* C24: the snapshot view get_feature or get_property returns carries the
\* segments whose ids are exactly those the targeting rules of the resource
\* name, each as the catalog defines it: no segment that is not named is
\* copied and no segment that is named is missing.
C24_ViewCarriesReferencedSegments ==
    \A t \in Threads :
        (pc[t] = "return" /\ IsSnapshot(res[t])) =>
            /\ DOMAIN res[t].segments = ReferencedSegmentIds(res[t].resource)
            /\ \A id \in DOMAIN res[t].segments :
                  res[t].segments[id] = store.segments[id]

\* C24 witness: get_feature returns a view with the one segment the feature
\* names, of a catalog that defines another segment as well
C24_Witness ==
    \E t \in Threads :
        /\ pc[t] = "return"
        /\ IsSnapshot(res[t])
        /\ DOMAIN res[t].segments = {"s1"}
        /\ DOMAIN store.segments = {"s1", "s2"}


\* C25 as the claim states it: the lock the queries take is shared, so that
\* only an install keeps a query out: whenever the monitoring thread is not
\* in its assignment, an application thread that is in no call can enter
\* get_feature_ids, other threads being inside queries or not.
C25_QueriesShareTheLock ==
    \A t \in Threads :
        (CanCall(t) /\ ~UpdaterInstalls) => ENABLED GetFeatureIdsLock(t)

\* C25, amended: the queries take the one lock of the Mutex, which is
\* exclusive: at most one application thread is inside a query at a time,
\* it holds the Mutex, and while it is inside no other thread can enter a
\* query; a query excludes the other queries as the install does.
C25_QueriesExcludeEachOther ==
    \A t \in Threads :
        InCall(t) =>
            /\ locked
            /\ \A u \in Threads \ {t} :
                  /\ ~InCall(u)
                  /\ ~ENABLED GetFeatureIdsLock(u)
                  /\ ~ENABLED GetPropertyIdsLock(u)

\* C25 witness: a thread is inside a query while another, which has queried
\* before and holds a view, is in no call
C25_Witness ==
    \E t \in Threads :
        \E u \in Threads \ {t} :
            /\ pc[t] = "feature_ids"
            /\ CanCall(u)
            /\ view[u] # None


\* a step of an application thread: a call is entered, goes on or returns,
\* or a view is made or let go
ThreadStep == pc' # pc \/ view' # view \/ res' # res \/ local' # local

\* C26: the operations of the client never write the snapshot in the Mutex:
\* every step of get_feature_ids, get_property_ids, get_feature,
\* get_property, get_feature_proxy and get_property_proxy, and of the
\* evaluation of a view, whether it succeeds or fails, leaves the snapshot
\* as it was; the snapshot changes only in the assignment of the monitoring
\* thread, which holds the Mutex and writes the snapshot it fetched.
C26_OnlyInstallWrites ==
    [][/\ ThreadStep => store' = store
       /\ store' # store =>
             /\ UpdaterInstalls
             /\ locked
             /\ pending \in ValidSnapshots
             /\ \A t \in Threads : pc' [t] = pc[t]
             /\ \/ store' = [store EXCEPT !.features = pending.features,
                                          !.properties = pending.properties]
                \/ store' = pending]_vars

\* C26 witness: a query has failed, another thread holds a view of an earlier
\* query, and the snapshot in the Mutex is a whole valid snapshot
C26_Witness ==
    \E t \in Threads :
        \E u \in Threads \ {t} :
            /\ pc[t] = "return"
            /\ res[t].kind = "error"
            /\ IsSnapshot(view[u])
            /\ store \in ValidSnapshots


\* C29: a message that is neither a text nor a close frame (a binary
\* message, a ping, a pong, a raw frame) is ignored as the keep-alive is: the thread
\* goes back to wait for the next message; nothing is fetched, the store and
\* the log are unchanged and the thread does not stop.
C29_OtherMessagesIgnored ==
    [][(ReadsMessage /\ msg'.type \notin {"Text", "Close"}) =>
          /\ upc' = "wait"
          /\ store' = store
          /\ pending' = pending
          /\ log' = log
          /\ locked' = locked
      ]_vars

\* C29 witness: the thread has read a binary message whose payload is that
\* of a change notification, and waits for the next message, nothing fetched
C29_Witness ==
    /\ upc = "wait"
    /\ msg = [type |-> "Binary", text |-> "configuration changed"]
    /\ pending = None
    /\ log = ""


(***************************************************************************)
(* The monitoring thread with the count of its work: the messages it has   *)
(* received, the fetches and the installs it has made, and the snapshot    *)
(* the calls of get_feature_ids read meanwhile.                            *)
(***************************************************************************)
InitHistory ==
    /\ store \in ValidSnapshots
    /\ locked = FALSE
    /\ dropped = FALSE
    /\ msg = None
    /\ upc = "check"
    /\ pending = None
    /\ log = ""
    /\ pc = [t \in Threads |-> "idle"]
    /\ arg = [t \in Threads |-> ""]
    /\ local = [t \in Threads |-> None]
    /\ view = [t \in Threads |-> None]
    /\ res = [t \in Threads |-> None]
    /\ val = None
    /\ conv = None
    /\ prim = None
    /\ config_value = None
    /\ typed = None
    /\ hist = NoHistory

NextHistory ==
    \/ UpdaterCheck
    \/ UpdaterBlock
    \/ UpdaterRead
    \/ UpdaterReadError
    \/ UpdaterFetch
    \/ UpdaterLock
    \/ UpdaterWrite
    \/ UpdaterWriteSegments
    \/ DropClient
    \/ \E t \in Threads :
         \/ GetFeatureIdsLock(t)
         \/ GetFeatureIds(t)
         \/ Return(t)

SpecHistory == InitHistory /\ [][NextHistory]_vars

\* C27: the thread makes one fetch for each text message other than "test
\* message" it receives, in the order received and one at a time: the number
\* of fetches made is the number of such messages received, less the one
\* message in hand exactly while the thread is about to fetch for it; a
\* fetch is made for the message received last, every earlier one having
\* had its fetch; no such message is received without a fetch following, and
\* the installs made are never more than the messages received.
C27_OneFetchPerRefresh ==
    [][/\ hist'.received = hist'.fetched + (IF upc' = "fetch" THEN 1 ELSE 0)
       /\ hist'.fetched = hist.fetched + 1 =>
             (upc = "fetch" /\ hist'.fetched = hist.received /\ hist'.received = hist.received)
       /\ hist'.received = hist.received + 1 =>
             (upc' = "fetch" /\ hist.fetched = hist.received)
       /\ hist'.fetched \in {hist.fetched, hist.fetched + 1}
       /\ hist'.received \in {hist.received, hist.received + 1}
       /\ hist'.installed <= hist'.fetched_ok
       /\ hist'.fetched_ok <= hist'.fetched
       /\ hist'.installed <= hist'.received]_vars

\* C27 witness: the thread has received two notifications and made two
\* fetches, of which the second failed, and one install
C27_Witness ==
    /\ hist.received = 2
    /\ hist.fetched = 2
    /\ hist.fetched_ok = 1
    /\ hist.installed = 1
    /\ upc = "done"

\* C28: the snapshots are installed in the order of their fetches: when a
\* fetch is made, the snapshot of every earlier fetch that gave one is the
\* one in the Mutex, so the number of the fetch whose snapshot is installed
\* never goes down; and a call of get_feature_ids that begins after another
\* has returned never reads a snapshot fetched before the one the other read.
C28_InstalledInFetchOrder ==
    [][/\ hist'.installed >= hist.installed
       /\ hist'.fetched = hist.fetched + 1 => hist.installed = hist.fetched_ok
       /\ \A t \in Threads :
             hist'.seen[t] >= 0 => hist'.seen[t] >= hist'.floor[t]]_vars

\* C28 witness: a call has returned after reading the snapshot of the first
\* fetch, and a call that began after it has read that of the second fetch
C28_Witness ==
    \E t \in Threads :
        /\ pc[t] = "return"
        /\ hist.floor[t] = 1
        /\ hist.seen[t] = 2


(***************************************************************************)
(* The client with a thread that waits for the Mutex made visible: a call  *)
(* of get_feature_ids is entered, blocks in lock() while the Mutex is held *)
(* and goes on once it has the Mutex.  A thread that holds the Mutex keeps *)
(* running, and the Mutex is handed to a thread that keeps waiting for it. *)
(***************************************************************************)
\* get_feature_ids is called: the thread is at latest_config_snapshot.lock()
GetFeatureIdsCall(t) ==
    /\ CanCall(t)
    /\ pc' = [pc EXCEPT ![t] = "feature_ids_lock"]
    /\ UNCHANGED <<store, locked, dropped, msg, upc, pending, log, arg, local, view, res,
                   val, conv, prim, config_value, typed, hist>>

\* lock() returns the guard
GetFeatureIdsAcquire(t) ==
    /\ pc[t] = "feature_ids_lock"
    /\ MutexLock
    /\ pc' = [pc EXCEPT ![t] = "feature_ids"]
    /\ hist' = HistStarted(t)
    /\ UNCHANGED <<store, dropped, msg, upc, pending, log, arg, local, view, res,
                   val, conv, prim, config_value, typed>>

\* a step of a call of thread t that holds the Mutex
QueryStep(t) ==
    \/ GetFeatureIds(t)
    \/ GetPropertyIds(t)
    \/ GetFeatureLookup(t)
    \/ GetFeatureSegments(t)
    \/ GetPropertyLookup(t)
    \/ GetPropertySegments(t)
    \/ \E e \in Entities : ProxyGetValue(t, e)
    \/ Return(t)

\* a step of the assignment of the monitoring thread
InstallStep == UpdaterWrite \/ UpdaterWriteSegments

NextFair ==
    \/ Next
    \/ \E t \in Threads : GetFeatureIdsCall(t)
    \/ \E t \in Threads : GetFeatureIdsAcquire(t)

SpecFair ==
    /\ Init
    /\ [][NextFair]_vars
    /\ \A t \in Threads : WF_vars(QueryStep(t))
    /\ \A t \in Threads : SF_vars(GetFeatureIdsAcquire(t))
    /\ WF_vars(InstallStep)

\* thread t holds the Mutex, inside a call
HoldsMutex(t) == pc[t] \notin {"idle", "feature_ids_lock"}

====
